---- MODULE Spec2Model ----
(***************************************************************************)
(* GoogleChartsService (app/services/google-charts.js).                    *)
(*                                                                         *)
(* Every load() call creates one instance of loadTask.  The task carries   *)
(* the .drop() modifier: an instance performed while another one is        *)
(* running is dropped and never runs.  An accepted instance runs           *)
(*   loadJsApi -> loadCoreChart -> loaded = true -> dispatchEvent          *)
(* suspending on the script element's load/error event and on the          *)
(* package loader's callback, which are fired by the browser.              *)
(*                                                                         *)
(* The script served from the jsapi URL installs window.google before its  *)
(* load event fires; nothing ever removes window.google.                   *)
(***************************************************************************)
EXTENDS Naturals, Sequences, FiniteSets

\* number of load() calls explored
MaxCalls == 3

VARIABLES
    loaded,        \* @tracked loaded (line 7)
    windowGoogle,  \* TRUE iff window.google is defined
    scripts,       \* <script> elements appended to document.body, in order
    inst,          \* position of every load() call / loadTask instance
    presence,      \* outcome of the line-33 test for every instance
    apiCalls,      \* instances that invoked api.load (line 41), in order
    callbacks,     \* instances whose package-loader callback fired (line 43)
    events         \* events dispatched on document (line 17), in order

vars == <<loaded, windowGoogle, scripts, inst, presence, apiCalls, callbacks, events>>

JSAPI == "https://www.google.com/jsapi"

\* positions in which a loadTask instance counts as running for .drop()
RunningPcs == {"awaitScript", "jsApiResolved", "yieldRejected",
               "awaitCallback", "callbackFired"}

AllPcs == RunningPcs \cup {"dropped", "finished", "errored", "resolved", "rejected"}

Range(s) == {s[k] : k \in DOMAIN s}

Count(s, x) == Cardinality({k \in DOMAIN s : s[k] = x})

InFlight == {i \in DOMAIN inst : inst[i] \in RunningPcs}

\* mutant: the task has no concurrency modifier, nothing is ever "running"
NeverRunning == FALSE

\* mutant: an instance whose body threw still holds the guard
IsRunningStuck == \E i \in DOMAIN inst : inst[i] \in RunningPcs \cup {"errored", "rejected"}

\* task(...).drop(): is an instance of loadTask running?
IsRunning == InFlight # {}

TypeOK ==
    /\ loaded \in BOOLEAN
    /\ windowGoogle \in BOOLEAN
    /\ inst \in Seq(AllPcs) /\ Len(inst) <= MaxCalls
    /\ presence \in Seq({"notrun", "present", "absent"}) /\ Len(presence) = Len(inst)
    /\ \A s \in DOMAIN scripts :
          /\ scripts[s].owner \in DOMAIN inst
          /\ scripts[s].src = JSAPI
          /\ scripts[s].status \in {"pending", "loaded", "failed"}
    /\ Range(apiCalls) \subseteq DOMAIN inst
    /\ Range(callbacks) \subseteq DOMAIN inst

Init ==
    /\ loaded = FALSE
    /\ windowGoogle \in BOOLEAN
    /\ scripts = <<>>
    /\ inst = <<>>
    /\ presence = <<>>
    /\ apiCalls = <<>>
    /\ callbacks = <<>>
    /\ events = <<>>

\* createEvent(name): document.createEvent('Event'); initEvent(name, true, true)
createEvent(name) == [type |-> name, bubbles |-> TRUE, cancelable |-> TRUE]

\* loadScript(src), synchronous part: the Promise executor creates the
\* element, sets src/onload/onerror and appends it to document.body
loadScript(i, src) ==
    scripts' = Append(scripts, [owner |-> i, src |-> src, status |-> "pending"])

\* mutant: loadJsApi without the presence test, the script is always injected
loadJsApiAlways(i) ==
    /\ loadScript(i, JSAPI)
    /\ inst' = Append(inst, "awaitScript")
    /\ presence' = Append(presence, IF windowGoogle THEN "present" ELSE "absent")

\* mutant: loadJsApi does not await loadScript and returns window.google at once
loadJsApiNoAwait(i) ==
    IF ~windowGoogle
    THEN /\ loadScript(i, JSAPI)
         /\ inst' = Append(inst, "jsApiResolved")
         /\ presence' = Append(presence, "absent")
    ELSE /\ scripts' = scripts
         /\ inst' = Append(inst, "jsApiResolved")
         /\ presence' = Append(presence, "present")

\* loadJsApi(), up to its first suspension
loadJsApi(i) ==
    IF ~windowGoogle
    THEN /\ loadScript(i, JSAPI)
         /\ inst' = Append(inst, "awaitScript")
         /\ presence' = Append(presence, "absent")
    ELSE /\ scripts' = scripts
         /\ inst' = Append(inst, "jsApiResolved")
         /\ presence' = Append(presence, "present")

\* mutant: the presence test and the injection run before the guard is
\* consulted, so a dropped call still appends a script element
dropInstanceInjects(i) ==
    /\ inst' = Append(inst, "dropped")
    /\ presence' = Append(presence, "notrun")
    /\ scripts' = IF ~windowGoogle
                  THEN Append(scripts, [owner |-> i, src |-> JSAPI, status |-> "pending"])
                  ELSE scripts

\* a perform() that is dropped: the instance never runs
dropInstance(i) ==
    /\ inst' = Append(inst, "dropped")
    /\ presence' = Append(presence, "notrun")
    /\ scripts' = scripts

\* mutant: .restartable() instead of .drop(): the running instance is
\* cancelled and the new one starts
loadRestartable ==
    /\ Len(inst) < MaxCalls
    /\ LET i == Len(inst) + 1
           cancelled == [k \in DOMAIN inst |->
                           IF inst[k] \in RunningPcs THEN "dropped" ELSE inst[k]]
       IN  /\ scripts' = IF ~windowGoogle
                         THEN Append(scripts, [owner |-> i, src |-> JSAPI, status |-> "pending"])
                         ELSE scripts
           /\ inst' = Append(cancelled, IF ~windowGoogle THEN "awaitScript" ELSE "jsApiResolved")
           /\ presence' = Append(presence, IF ~windowGoogle THEN "absent" ELSE "present")
    /\ UNCHANGED <<loaded, windowGoogle, apiCalls, callbacks, events>>

\* mutant: load() resets the readiness flag when it starts an execution
loadResetsFlag ==
    /\ Len(inst) < MaxCalls
    /\ LET i == Len(inst) + 1
       IN  IF IsRunning THEN dropInstance(i) /\ loaded' = loaded
                        ELSE loadJsApi(i) /\ loaded' = FALSE
    /\ UNCHANGED <<windowGoogle, apiCalls, callbacks, events>>

\* mutant: load() returns at once when the service is already loaded
loadShortCircuit ==
    /\ Len(inst) < MaxCalls
    /\ LET i == Len(inst) + 1
       IN  IF IsRunning \/ loaded THEN dropInstance(i) ELSE loadJsApi(i)
    /\ UNCHANGED <<loaded, windowGoogle, apiCalls, callbacks, events>>

\* load(): this.loadTask.perform(), and for an accepted instance the task
\* body up to its first yield (line 14)
load ==
    /\ Len(inst) < MaxCalls
    /\ LET i == Len(inst) + 1
       IN  IF IsRunning THEN dropInstance(i) ELSE loadJsApi(i)
    /\ UNCHANGED <<loaded, windowGoogle, apiCalls, callbacks, events>>

\* script.onload = resolve: the script ran and installed window.google
script_onload(s) ==
    /\ scripts[s].status = "pending"
    /\ scripts' = [scripts EXCEPT ![s].status = "loaded"]
    /\ windowGoogle' = TRUE
    /\ inst' = [inst EXCEPT ![scripts[s].owner] = "jsApiResolved"]
    /\ UNCHANGED <<loaded, presence, apiCalls, callbacks, events>>

\* mutant: onerror is not wired to reject, the promise stays pending
script_onerrorIgnored(s) ==
    /\ scripts[s].status = "pending"
    /\ scripts' = [scripts EXCEPT ![s].status = "failed"]
    /\ UNCHANGED <<loaded, windowGoogle, inst, presence, apiCalls, callbacks, events>>

\* script.onerror = reject: the promise of loadScript, hence loadJsApi, rejects
script_onerror(s) ==
    /\ scripts[s].status = "pending"
    /\ scripts' = [scripts EXCEPT ![s].status = "failed"]
    /\ inst' = [inst EXCEPT ![scripts[s].owner] = "yieldRejected"]
    /\ UNCHANGED <<loaded, windowGoogle, presence, apiCalls, callbacks, events>>

\* mutant: the task finalises in a finally block, so also when it throws
loadTask_throwFinally(i) ==
    /\ inst[i] = "yieldRejected"
    /\ inst' = [inst EXCEPT ![i] = "errored"]
    /\ loaded' = TRUE
    /\ events' = Append(events, [ev |-> createEvent("googleChartsLoaded"), by |-> i])
    /\ UNCHANGED <<windowGoogle, scripts, presence, apiCalls, callbacks>>

\* the rejection is thrown into the task at its yield; nothing catches it, the
\* instance ends in error and the guard is released
loadTask_throw(i) ==
    /\ inst[i] = "yieldRejected"
    /\ inst' = [inst EXCEPT ![i] = "errored"]
    /\ UNCHANGED <<loaded, windowGoogle, scripts, presence, apiCalls, callbacks, events>>

\* the await of line 10 rethrows: load() rejects to its caller
load_rejects(i) ==
    /\ inst[i] = "errored"
    /\ inst' = [inst EXCEPT ![i] = "rejected"]
    /\ UNCHANGED <<loaded, windowGoogle, scripts, presence, apiCalls, callbacks, events>>

\* mutant: the handshake is skipped when the global was already there
loadCoreChartSkipPresent(i) ==
    /\ inst[i] = "jsApiResolved"
    /\ IF presence[i] = "present"
       THEN /\ inst' = [inst EXCEPT ![i] = "callbackFired"]
            /\ apiCalls' = apiCalls
       ELSE /\ inst' = [inst EXCEPT ![i] = "awaitCallback"]
            /\ apiCalls' = Append(apiCalls, i)
    /\ UNCHANGED <<loaded, windowGoogle, scripts, presence, callbacks, events>>

\* mutant: loadCoreChart does not wait for the callback
loadCoreChartNoWait(i) ==
    /\ inst[i] = "jsApiResolved"
    /\ IF windowGoogle
       THEN /\ apiCalls' = Append(apiCalls, i)
            /\ inst' = [inst EXCEPT ![i] = "callbackFired"]
       ELSE /\ apiCalls' = apiCalls
            /\ inst' = [inst EXCEPT ![i] = "yieldRejected"]
    /\ UNCHANGED <<loaded, windowGoogle, scripts, presence, callbacks, events>>

\* the task resumes with api = window.google and runs loadCoreChart(api):
\* api.load('visualization', '1.0', {packages: ['corechart'], callback})
loadCoreChart(i) ==
    /\ inst[i] = "jsApiResolved"
    /\ IF windowGoogle
       THEN /\ apiCalls' = Append(apiCalls, i)
            /\ inst' = [inst EXCEPT ![i] = "awaitCallback"]
       ELSE \* api is undefined: api.load throws inside the executor
            /\ apiCalls' = apiCalls
            /\ inst' = [inst EXCEPT ![i] = "yieldRejected"]
    /\ UNCHANGED <<loaded, windowGoogle, scripts, presence, callbacks, events>>

\* mutant: the wait for the callback is raced against a timeout that rejects
callbackOrTimeout(i) ==
    /\ inst[i] = "awaitCallback"
    /\ \/ /\ callbacks' = Append(callbacks, i)
          /\ inst' = [inst EXCEPT ![i] = "callbackFired"]
       \/ /\ callbacks' = callbacks
          /\ inst' = [inst EXCEPT ![i] = "yieldRejected"]
    /\ UNCHANGED <<loaded, windowGoogle, scripts, presence, apiCalls, events>>

\* the package loader calls back: callback: resolve
callback(i) ==
    /\ inst[i] = "awaitCallback"
    /\ callbacks' = Append(callbacks, i)
    /\ inst' = [inst EXCEPT ![i] = "callbackFired"]
    /\ UNCHANGED <<loaded, windowGoogle, scripts, presence, apiCalls, events>>

\* mutant: the flag is set only by the first execution that injected a script
loadTask_finishFlagIfInjected(i) ==
    /\ inst[i] = "callbackFired"
    /\ loaded' = (loaded \/ presence[i] = "absent")
    /\ events' = Append(events, [ev |-> createEvent("googleChartsLoaded"), by |-> i])
    /\ inst' = [inst EXCEPT ![i] = "finished"]
    /\ UNCHANGED <<windowGoogle, scripts, presence, apiCalls, callbacks>>

\* mutant: the event is dispatched but the flag is never set
loadTask_finishNoFlag(i) ==
    /\ inst[i] = "callbackFired"
    /\ loaded' = loaded
    /\ events' = Append(events, [ev |-> createEvent("googleChartsLoaded"), by |-> i])
    /\ inst' = [inst EXCEPT ![i] = "finished"]
    /\ UNCHANGED <<windowGoogle, scripts, presence, apiCalls, callbacks>>

\* mutant: the event is not dispatched when the flag was already set
loadTask_finishQuiet(i) ==
    /\ inst[i] = "callbackFired"
    /\ loaded' = TRUE
    /\ events' = IF loaded THEN events
                 ELSE Append(events, [ev |-> createEvent("googleChartsLoaded"), by |-> i])
    /\ inst' = [inst EXCEPT ![i] = "finished"]
    /\ UNCHANGED <<windowGoogle, scripts, presence, apiCalls, callbacks>>

\* the task resumes after line 15: this.loaded = true, dispatchEvent, and
\* the instance completes, releasing the guard
loadTask_finish(i) ==
    /\ inst[i] = "callbackFired"
    /\ loaded' = TRUE
    /\ events' = Append(events, [ev |-> createEvent("googleChartsLoaded"), by |-> i])
    /\ inst' = [inst EXCEPT ![i] = "finished"]
    /\ UNCHANGED <<windowGoogle, scripts, presence, apiCalls, callbacks>>

\* the await of line 10 completes: load() resolves to its caller
load_resolves(i) ==
    /\ inst[i] = "finished"
    /\ inst' = [inst EXCEPT ![i] = "resolved"]
    /\ UNCHANGED <<loaded, windowGoogle, scripts, presence, apiCalls, callbacks, events>>

Next ==
    \/ load
    \/ \E s \in DOMAIN scripts : script_onload(s)
    \/ \E s \in DOMAIN scripts : script_onerror(s)
    \/ \E i \in DOMAIN inst : loadTask_throw(i)
    \/ \E i \in DOMAIN inst : load_rejects(i)
    \/ \E i \in DOMAIN inst : loadCoreChart(i)
    \/ \E i \in DOMAIN inst : callback(i)
    \/ \E i \in DOMAIN inst : loadTask_finish(i)
    \/ \E i \in DOMAIN inst : load_resolves(i)

Spec == Init /\ [][Next]_vars

\* The browser eventually fires load or error on a pending script element
\* and the package loader eventually calls back; the event loop runs every
\* continuation that is ready.  load() itself is called or not as the
\* application pleases.
Fairness ==
    /\ WF_vars(\E s \in DOMAIN scripts : script_onload(s) \/ script_onerror(s))
    /\ WF_vars(\E i \in DOMAIN inst : callback(i))
    /\ WF_vars(\E i \in DOMAIN inst : loadCoreChart(i))
    /\ WF_vars(\E i \in DOMAIN inst : loadTask_throw(i))
    /\ WF_vars(\E i \in DOMAIN inst : loadTask_finish(i))
    /\ WF_vars(\E i \in DOMAIN inst : load_rejects(i))
    /\ WF_vars(\E i \in DOMAIN inst : load_resolves(i))

FairSpec == Spec /\ Fairness

----------------------------------------------------------------------------
\* helpers of the properties

DonePcs == {"finished", "resolved"}

FailPcs == {"yieldRejected", "errored", "rejected"}

\* completion events dispatched by instance i
EventsBy(i) == {k \in DOMAIN events :
                   events[k].by = i /\ events[k].ev.type = "googleChartsLoaded"}

ScriptsOf(i) == {s \in DOMAIN scripts : scripts[s].owner = i}

\* this step is a load() call
IsLoadStep == Len(inst') = Len(inst) + 1

----------------------------------------------------------------------------
\* C1: when the global was absent at the start and further load() calls
\* arrive while the first execution is still in flight, exactly one script
\* element has been injected; with two calls, the second dropped, that
\* stays so after the first execution has ended.
C1_OneScriptWhenConcurrent ==
    /\ (Len(inst) >= 1 /\ presence[1] = "absent" /\ inst[1] \in RunningPcs)
          => Len(scripts) = 1
    /\ (Len(inst) = 2 /\ presence[1] = "absent" /\ presence[2] = "notrun")
          => Len(scripts) = 1

C1_Witness ==
    /\ Len(inst) = 2 /\ presence[1] = "absent"
    /\ inst[1] = "awaitScript" /\ inst[2] = "dropped"
    /\ Len(scripts) = 1

\* C2: at most one execution is in flight; a load() issued while one is in
\* flight is dropped, leaves the running one where it is, and a dropped
\* call never starts an execution later.
C2_AtMostOneInFlight ==
    [][ /\ Cardinality(InFlight') <= 1
        /\ \A i \in DOMAIN inst : inst[i] = "dropped" => inst'[i] = "dropped"
        /\ (IsLoadStep /\ InFlight # {}) =>
              /\ inst'[Len(inst')] = "dropped"
              /\ \A i \in DOMAIN inst : inst'[i] = inst[i]
              /\ InFlight' = InFlight
      ]_vars

C2_Witness ==
    /\ Cardinality(InFlight) = 1
    /\ \E i \in DOMAIN inst : inst[i] = "dropped"
    /\ \E i \in DOMAIN inst : inst[i] = "awaitCallback"

\* C3: once an execution has completed successfully, loaded is true and that
\* execution has dispatched 'googleChartsLoaded' exactly once; the events
\* dispatched are exactly those of the completed executions.
C3_LoadedAndOneEvent ==
    /\ \A i \in DOMAIN inst : inst[i] \in DonePcs =>
          loaded /\ Cardinality(EventsBy(i)) = 1
    /\ Len(events) = Cardinality({i \in DOMAIN inst : inst[i] \in DonePcs})
    /\ \A k \in DOMAIN events : events[k].ev = createEvent("googleChartsLoaded")

C3_Witness ==
    /\ Len(inst) >= 1 /\ inst[1] = "resolved"
    /\ loaded /\ Len(events) = 1

\* C4: an execution whose script element failed to load never invokes the
\* package loader, dispatches no event and does not touch the flag: the
\* steps of its failure leave loaded, the events and the invocations alone,
\* and loaded is true only if another execution dispatched.
C4_FailureNoHandshakeNoEvent ==
    /\ [](\A s \in DOMAIN scripts : scripts[s].status = "failed" =>
            /\ inst[scripts[s].owner] \in FailPcs
            /\ scripts[s].owner \notin Range(apiCalls)
            /\ scripts[s].owner \notin Range(callbacks)
            /\ EventsBy(scripts[s].owner) = {}
            /\ (loaded => \E k \in DOMAIN events : events[k].by # scripts[s].owner)
            /\ (events = <<>> => ~loaded))
    /\ [][ \A i \in DOMAIN inst :
             (inst'[i] \in FailPcs /\ inst'[i] # inst[i]) =>
                 /\ loaded' = loaded
                 /\ events' = events
                 /\ apiCalls' = apiCalls
       ]_vars

C4_Witness ==
    /\ Len(inst) >= 1 /\ inst[1] = "rejected"
    /\ Len(scripts) = 1 /\ scripts[1].status = "failed"
    /\ ~loaded /\ events = <<>> /\ apiCalls = <<>>

\* C5: after a script load failure the execution ends in error, the error
\* goes to the caller of its load(), and the guard is released: a load()
\* issued after the failure with nothing in flight starts a fresh
\* execution.  Nothing retries by itself: a script element is only
\* injected by a load() call, and each execution injects at most one
\* script and invokes the package loader at most once.
C5_GuardReleasedNoAutoRetry ==
    /\ [](/\ \A s \in DOMAIN scripts : scripts[s].status = "failed" =>
                inst[scripts[s].owner] \in FailPcs
          /\ \A i \in DOMAIN inst :
                Cardinality(ScriptsOf(i)) <= 1 /\ Count(apiCalls, i) <= 1)
    /\ [][ /\ \A i \in DOMAIN inst :
                /\ inst[i] = "yieldRejected" => inst'[i] \in {"yieldRejected", "errored"}
                /\ inst[i] = "errored" => inst'[i] \in {"errored", "rejected"}
                /\ inst[i] = "rejected" => inst'[i] = "rejected"
           /\ (/\ IsLoadStep
               /\ InFlight = {}
               /\ \E i \in DOMAIN inst : inst[i] \in {"errored", "rejected"})
                 => /\ inst'[Len(inst')] \in {"awaitScript", "jsApiResolved"}
                    /\ presence'[Len(inst')] # "notrun"
           /\ ~IsLoadStep => Len(scripts') = Len(scripts)
       ]_vars

C5_Witness ==
    /\ Len(inst) >= 2
    /\ inst[1] = "rejected" /\ scripts[1].status = "failed"
    /\ inst[2] = "awaitScript" /\ Len(scripts) = 2

\* C6: an accepted execution that starts with window.google present
\* injects no script element, never fails, invokes the package loader once
\* and, after the callback, has set the flag and dispatched one event.
C6_PresentGlobalSkipsInjection ==
    /\ [](\A i \in DOMAIN inst : presence[i] = "present" =>
            /\ ScriptsOf(i) = {}
            /\ inst[i] \in {"jsApiResolved", "awaitCallback", "callbackFired"} \cup DonePcs
            /\ inst[i] # "jsApiResolved" => Count(apiCalls, i) = 1
            /\ inst[i] \in {"callbackFired"} \cup DonePcs => Count(callbacks, i) = 1
            /\ inst[i] \in DonePcs => loaded /\ Cardinality(EventsBy(i)) = 1)
    /\ [][ (IsLoadStep /\ InFlight = {} /\ windowGoogle) =>
              /\ scripts' = scripts
              /\ presence'[Len(inst')] = "present"
              /\ inst'[Len(inst')] = "jsApiResolved"
       ]_vars

C6_Witness ==
    /\ Len(inst) >= 1 /\ presence[1] = "present"
    /\ inst[1] = "resolved" /\ scripts = <<>>
    /\ apiCalls = <<1>> /\ loaded /\ Len(events) = 1

\* C7: of two load() calls that both completed successfully, each invoked
\* the package loader once and each dispatched one event, and the later one
\* injected no script; when these are the only two calls, the package
\* loader was invoked twice, two events were dispatched, and one script
\* element was injected (none if the global was there from the start).
C7_SequentialCallsRerunHandshake ==
    /\ \A i, j \in DOMAIN inst :
          (i < j /\ inst[i] \in DonePcs /\ inst[j] \in DonePcs) =>
              /\ Count(apiCalls, i) = 1 /\ Count(apiCalls, j) = 1
              /\ Cardinality(EventsBy(i)) = 1 /\ Cardinality(EventsBy(j)) = 1
              /\ ScriptsOf(j) = {}
    /\ (Len(inst) = 2 /\ inst[1] \in DonePcs /\ inst[2] \in DonePcs) =>
          /\ Len(apiCalls) = 2
          /\ Len(events) = 2
          /\ Len(scripts) = IF presence[1] = "absent" THEN 1 ELSE 0

C7_Witness ==
    /\ Len(inst) = 2 /\ inst[1] = "resolved" /\ inst[2] = "resolved"
    /\ presence[1] = "absent"
    /\ Len(apiCalls) = 2 /\ Len(events) = 2 /\ Len(scripts) = 1

\* C8 as stated: at most one script element exists after any sequence of
\* load() calls, failed script loads included.
C8_Original == Len(scripts) <= 1

\* C8 amended: every script element but the last one is one whose load
\* failed, and no script element is injected while window.google exists.
C8_AtMostOneNonFailedScript ==
    /\ [](\A s \in DOMAIN scripts : s < Len(scripts) => scripts[s].status = "failed")
    /\ [][windowGoogle => scripts' = scripts]_vars

C8_Witness ==
    /\ Len(scripts) = 2
    /\ scripts[1].status = "failed" /\ scripts[2].status = "loaded"
    /\ \E i \in DOMAIN inst : inst[i] = "resolved"

\* C9: loaded is false initially and never goes back from true to false.
C9_LoadedMonotone == ~loaded /\ [][loaded => loaded']_vars

C9_Witness ==
    /\ loaded
    /\ \E i \in DOMAIN inst : inst[i] = "dropped"
    /\ \E i \in DOMAIN inst : inst[i] = "awaitCallback"

\* C10 as stated: once loaded is true, a load() call starts no execution.
C10_Original ==
    [][(loaded /\ IsLoadStep) => inst'[Len(inst')] \notin RunningPcs]_vars

\* C10 amended: once loaded is true it stays true, but load() is a no-op
\* only while an execution is in flight; issued with nothing in flight it
\* starts a new execution, which injects no script and goes to the
\* package-loader handshake again.
C10_ReadyReloads ==
    [][(loaded /\ IsLoadStep) =>
          /\ loaded'
          /\ scripts' = scripts
          /\ inst'[Len(inst')] = IF InFlight # {} THEN "dropped" ELSE "jsApiResolved"
      ]_vars

C10_Witness ==
    /\ loaded /\ Len(inst) >= 2
    /\ inst[1] = "resolved" /\ inst[2] = "awaitCallback"
    /\ Len(events) = 1 /\ Len(apiCalls) = 2

\* C11: a dropped load() call changes nothing but its own record: script
\* elements, package-loader invocations, callbacks, flag, events and the
\* position of every other instance stay as they are; the dropped call is
\* settled at once and no later step of the in-flight execution (its
\* success or its failure) changes that.
C11_DroppedCallNoEffect ==
    [][ /\ (IsLoadStep /\ InFlight # {}) =>
              /\ inst'[Len(inst')] = "dropped"
              /\ presence'[Len(inst')] = "notrun"
              /\ scripts' = scripts
              /\ apiCalls' = apiCalls
              /\ callbacks' = callbacks
              /\ loaded' = loaded
              /\ events' = events
              /\ windowGoogle' = windowGoogle
              /\ \A i \in DOMAIN inst : inst'[i] = inst[i] /\ presence'[i] = presence[i]
        /\ \A i \in DOMAIN inst : presence[i] = "notrun" =>
              /\ inst[i] = "dropped" /\ inst'[i] = "dropped"
              /\ ScriptsOf(i) = {} /\ EventsBy(i) = {}
              /\ i \notin Range(apiCalls)
      ]_vars

C11_Witness ==
    /\ Len(inst) >= 2
    /\ inst[1] = "rejected" /\ inst[2] = "dropped"
    /\ Len(scripts) = 1 /\ apiCalls = <<>> /\ ~loaded /\ events = <<>>

\* C12: within an execution the package loader is invoked only after the
\* script loaded or the global was found present, the flag and the event
\* come only after the callback, and whenever an event has been dispatched
\* loaded is true.
C12_StepsOrdered ==
    /\ \A i \in DOMAIN inst :
          /\ inst[i] = "awaitScript" => i \notin Range(apiCalls)
          /\ inst[i] \in {"awaitScript", "jsApiResolved", "awaitCallback"} =>
                i \notin Range(callbacks)
          /\ inst[i] \in RunningPcs => EventsBy(i) = {}
          /\ i \in Range(callbacks) => i \in Range(apiCalls)
          /\ EventsBy(i) # {} =>
                /\ i \in Range(callbacks)
                /\ inst[i] \in DonePcs
                /\ loaded
          /\ inst[i] \in DonePcs => EventsBy(i) # {}
    /\ \A k \in DOMAIN apiCalls :
          \/ presence[apiCalls[k]] = "present"
          \/ \E s \in ScriptsOf(apiCalls[k]) : scripts[s].status = "loaded"
    /\ events # <<>> => loaded

C12_Witness ==
    /\ Len(inst) >= 1 /\ inst[1] = "finished" /\ presence[1] = "absent"
    /\ scripts[1].status = "loaded"
    /\ apiCalls = <<1>> /\ callbacks = <<1>>
    /\ loaded /\ Len(events) = 1

\* C13: as long as the callback of an execution waiting for the package
\* loader does not fire, the execution stays where it is, the guard stays
\* held, every load() call is dropped, and the flag and the events keep
\* their values.
C13_PendingWithoutCallback ==
    [][ \A i \in DOMAIN inst :
          (inst[i] = "awaitCallback" /\ callbacks' = callbacks) =>
              /\ inst'[i] = "awaitCallback"
              /\ InFlight' = {i}
              /\ loaded' = loaded
              /\ events' = events
              /\ EventsBy(i) = {}
              /\ IsLoadStep => inst'[Len(inst')] = "dropped"
      ]_vars

C13_Witness ==
    /\ Len(inst) = MaxCalls
    /\ inst[1] = "awaitCallback"
    /\ \A i \in 2..Len(inst) : inst[i] = "dropped"
    /\ ~loaded /\ events = <<>>

\* C14: under fairness of the external events, every accepted execution
\* eventually ends, either successfully (flag set, event dispatched) or in
\* failure with the guard released, and the service does not stay loading.
C14_EveryExecutionTerminates ==
    /\ \A i \in 1..MaxCalls :
          (i \in DOMAIN inst /\ inst[i] \in RunningPcs)
             ~> /\ i \in DOMAIN inst
                /\ \/ (inst[i] \in DonePcs /\ loaded /\ EventsBy(i) # {})
                   \/ (inst[i] \in {"errored", "rejected"} /\ i \notin InFlight)
    /\ []<>(InFlight = {})

C14_Witness ==
    /\ Len(inst) >= 2
    /\ inst[1] = "rejected" /\ inst[2] = "resolved"
    /\ InFlight = {} /\ loaded

\* C15: the package loader is invoked only while window.google exists, by
\* an execution that either found the global present or had its own script
\* element loaded.
C15_ApiLoadNeedsGlobal ==
    /\ [](/\ apiCalls # <<>> => windowGoogle
          /\ \A i \in Range(apiCalls) :
                IF presence[i] = "present"
                THEN ScriptsOf(i) = {}
                ELSE /\ presence[i] = "absent"
                     /\ \A s \in ScriptsOf(i) : scripts[s].status = "loaded"
                     /\ Cardinality(ScriptsOf(i)) = 1)
    /\ [][apiCalls' # apiCalls =>
             /\ windowGoogle
             /\ Len(apiCalls') = Len(apiCalls) + 1
             /\ inst[apiCalls'[Len(apiCalls')]] = "jsApiResolved"
       ]_vars

C15_Witness ==
    /\ Len(inst) >= 2
    /\ presence[1] = "absent" /\ presence[2] = "present"
    /\ apiCalls = <<1, 2>> /\ windowGoogle

Accepted == {i \in DOMAIN inst : inst[i] # "dropped"}

\* C16 as stated: events = callbacks <= invocations <= accepted calls, and
\* loaded iff an event has been dispatched.
C16_Original ==
    /\ Len(events) = Len(callbacks)
    /\ Len(callbacks) <= Len(apiCalls)
    /\ Len(apiCalls) <= Cardinality(Accepted)
    /\ loaded <=> Len(events) >= 1

\* C16 amended: events <= callbacks <= invocations <= accepted calls; the
\* callbacks exceed the events exactly by the execution whose callback has
\* fired and whose task has not resumed yet (at most one), so the two are
\* equal whenever no execution is in flight; loaded iff an event has been
\* dispatched.
C16_Counting ==
    /\ Len(events) + Cardinality({i \in DOMAIN inst : inst[i] = "callbackFired"})
          = Len(callbacks)
    /\ Len(callbacks) <= Len(events) + 1
    /\ InFlight = {} => Len(events) = Len(callbacks)
    /\ Len(callbacks) <= Len(apiCalls)
    /\ Len(apiCalls) <= Cardinality(Accepted)
    /\ loaded <=> Len(events) >= 1

C16_Witness ==
    /\ Len(inst) >= 2
    /\ inst[1] = "resolved" /\ inst[2] = "callbackFired"
    /\ Len(events) = 1 /\ Len(callbacks) = 2 /\ Len(apiCalls) = 2 /\ loaded

====
